---- MODULE Spec2Model ----
(***************************************************************************)
(* Meeting recording service: the meeting lifecycle (webhook handlers),    *)
(* the step executor (MeetingService.processStep), the pipeline            *)
(* (MeetingService.processRecordingUrgently, retryProcessing,              *)
(* manualProcessMeeting) and the stuck-meeting poller (PollStatusJob).     *)
(***************************************************************************)
EXTENDS Integers, Sequences, FiniteSets, Bags, TLC

(***************************************************************************)
(* Bounds of the model                                                     *)
(***************************************************************************)
\* number of concurrently tracked pipeline executions (promises in flight)
MaxRuns == 2
\* number of events the service handles (requests, webhooks, cron firings, clock advances)
MaxEvents == 3
\* largest maxRetries a processStep call is given in the step-executor runs
MaxN == 4

(***************************************************************************)
(* Program constants                                                       *)
(***************************************************************************)
\* processStep(meetingId, stepName, processingFunction, maxRetries = 3)
DefaultMaxRetries == 3
\* Math.pow(2, attempt) * 1000
BackoffBaseMs == 1000
\* statusAgeMinutes > 180: bot_joined for too long, mark as failed
CeilingMinutes == 180
\* statusAgeMinutes > 2: bot_joined, check if the recording is ready
BotJoinedMinutes == 2
\* statusAgeMinutes > 30: recording, likely finished
RecordingMinutes == 30
\* getMeetingsByStatus(status, 10)
PollLimit == 10

\* the meetings (rows of table meetings) the model has room for
Meetings == {1, 2}
\* the meetings whose whole life, from the creation of the row on, is followed
Tracked == {1}

\* wall-clock instants (minutes) the model's clock passes through: 15 minutes
\* and 4 hours after the start are the ages of the spec's scenarios A and B
ClockPoints == <<0, 15, 240>>

\* the status order of the lifecycle
Rank(s) ==
  CASE s = "none" -> 0
    [] s = "started" -> 1
    [] s = "bot_joining" -> 2
    [] s = "bot_joined" -> 3
    [] s = "recording" -> 4
    [] s = "processing" -> 5
    [] s = "completed" -> 6
    [] s = "failed" -> 6

VARIABLES
  tick,            \* index into ClockPoints: Date.now()
  events,          \* number of events handled so far (requests, webhooks, cron, clock)
  recordingReady,  \* [Meetings -> BOOLEAN]: getSessionData reports a recordingLink
  meetings,        \* [Meetings -> row of table meetings]
  joining,         \* [Meetings -> position of the handler that created the row]
  runs,            \* the bag of pipeline executions in flight (pending promises)
  poll,            \* the poll cycle of PollStatusJob
  alert,           \* the last critical alert handed to the notifier
  stepIn,          \* processStep alone: the call's inputs
  stepOut,         \* processStep alone: what the call left
  attempts,        \* [Meetings -> rows of table processing_logs of the meeting], kept
                   \* where the tries of the steps are in view
  job,             \* PollStatusJob: this.task, this.isRunning, and the number of
                   \* its tasks that node-cron has scheduled
  server           \* the process: listening, closing after a signal, or exited

vars == <<tick, events, recordingReady, meetings, joining, runs, poll, alert,
          stepIn, stepOut, attempts, job, server>>

Now == ClockPoints[tick]

(***************************************************************************)
(* The step executor: MeetingService.processStep                           *)
(*                                                                         *)
(* One call is determined by what its collaborators do: ops[a] says        *)
(* whether processingFunction() resolves at attempt a, logOk whether the   *)
(* insert of the processing_logs row is accepted, updOk[a] whether the     *)
(* update of the row to 'completed' at attempt a is accepted and failOk    *)
(* whether the update to 'failed' after the last attempt is accepted.      *)
(***************************************************************************)
StepInputsOf(N) ==
  [N : {N}, ops : [1..N -> BOOLEAN], logOk : BOOLEAN,
   updOk : [1..N -> BOOLEAN], failOk : BOOLEAN]

AllStepInputs == UNION {StepInputsOf(N) : N \in 1..MaxN}

NoInput == [N |-> 0, ops |-> <<>>, logOk |-> FALSE, updOk |-> <<>>, failOk |-> FALSE]

NoResult == [rows |-> <<>>, outcome |-> "none", error |-> "none", result |-> 0,
             events |-> <<>>]

Event(ev, attempt, ok, ms) == [ev |-> ev, attempt |-> attempt, ok |-> ok, ms |-> ms]

\* const backoffMs = Math.pow(2, attempt) * 1000
BackoffMs(attempt) == (2 ^ attempt) * BackoffBaseMs

\* const log = await databaseService.logProcessingStep(meetingId, stepName, 'started'):
\* the rows of processing_logs this call has inserted
LogProcessingStep(in) == IF in.logOk THEN <<"started">> ELSE <<>>

\* a catch block that throws without updating the row
ExhaustedKeepsStarted(in, caught, log) ==
  [row |-> "started", outcome |-> "raised", error |-> caught, result |-> 0,
   events |-> log]

\* the catch block at attempt === maxRetries: updateProcessingStep(log.id, 'failed', ...)
\* and throw error; a rejected update throws its own error out of the catch block
Exhausted(in, caught, log) ==
  IF in.failOk
    THEN [row |-> "failed", outcome |-> "raised", error |-> caught, result |-> 0,
          events |-> Append(log, Event("update_failed", in.N, TRUE, 0))]
    ELSE [row |-> "started", outcome |-> "raised", error |-> "db", result |-> 0,
          events |-> Append(log, Event("update_failed", in.N, FALSE, 0))]

\* a loop that gives up at the first try that fails
AttemptOnce(in, attempt, log) ==
  LET tried == Append(log, Event("op", attempt, in.ops[attempt], 0))
  IN IF in.ops[attempt] /\ in.updOk[attempt]
       THEN [row |-> "completed", outcome |-> "returned", error |-> "none",
             result |-> attempt,
             events |-> Append(tried, Event("update_completed", attempt, TRUE, 0))]
       ELSE Exhausted(in, IF in.ops[attempt] THEN "db" ELSE "op", tried)

\* one iteration of for (let attempt = 1; attempt <= maxRetries; attempt++) and
\* the iterations after it
RECURSIVE Attempt(_, _, _)
Attempt(in, attempt, log) ==
  LET tried == Append(log, Event("op", attempt, in.ops[attempt], 0))
      recorded == IF in.ops[attempt]
                    THEN Append(tried, Event("update_completed", attempt, in.updOk[attempt], 0))
                    ELSE tried
      \* the error the catch block receives: processingFunction's, or the
      \* State Store's when updateProcessingStep(log.id, 'completed') is rejected
      caught == IF in.ops[attempt] THEN "db" ELSE "op"
  IN
  IF in.ops[attempt] /\ in.updOk[attempt]
    THEN [row |-> "completed", outcome |-> "returned", error |-> "none",
          result |-> attempt, events |-> recorded]
    ELSE IF attempt = in.N
      THEN Exhausted(in, caught, recorded)
      ELSE Attempt(in, attempt + 1,
                   Append(recorded, Event("wait", attempt, TRUE, BackoffMs(attempt))))

ProcessStep(in) ==
  LET rows == LogProcessingStep(in) IN
  IF rows = <<>>
    THEN [rows |-> <<>>, outcome |-> "raised", error |-> "db", result |-> 0,
          events |-> <<>>]
    ELSE LET r == Attempt(in, 1, <<>>) IN
         [rows |-> <<r.row>>, outcome |-> r.outcome, error |-> r.error,
          result |-> r.result, events |-> r.events]


(***************************************************************************)
(* The State Store: table meetings                                         *)
(***************************************************************************)
NoRow == [status |-> "none", session |-> FALSE, updated_at |-> 1,
          completed_at |-> FALSE, artifacts |-> FALSE]

\* databaseService.createMeeting: insert with created_at and updated_at = now; ids
\* are given in the order of creation
CreateMeeting(status, session) ==
  [NoRow EXCEPT !.status = status, !.session = session, !.updated_at = tick]

CanCreate(m) ==
  /\ meetings[m].status = "none"
  /\ \A k \in Meetings : k < m => meetings[k].status # "none"

\* databaseService.updateMeeting(meetingId, updates): .update({...updates,
\* updated_at: now}).eq('id', meetingId), whatever the row's current status
UpdateMeeting(row, updates) ==
  [f \in DOMAIN row |->
     IF f = "updated_at" THEN tick
     ELSE IF f \in DOMAIN updates THEN updates[f]
     ELSE row[f]]

\* statusAgeMinutes = Math.floor((Date.now() - new Date(meeting.updated_at)) / 60000)
StatusAgeMinutes(row) == Now - ClockPoints[row.updated_at]

\* the ids of a set of meetings, newest first: .order('created_at', {ascending: false})
RECURSIVE NewestFirst(_)
NewestFirst(ids) ==
  IF ids = {} THEN <<>>
  ELSE LET m == CHOOSE x \in ids : \A y \in ids : x >= y
       IN <<m>> \o NewestFirst(ids \ {m})

FirstN(seq, n) == IF Len(seq) <= n THEN seq ELSE SubSeq(seq, 1, n)

\* databaseService.getMeetingsByStatus(status, limit): the rows as read
GetMeetingsByStatus(status, limit) ==
  LET ids == FirstN(NewestFirst({m \in DOMAIN meetings : meetings[m].status = status}),
                   limit)
  IN [i \in 1..Len(ids) |->
        [id |-> ids[i], status |-> meetings[ids[i]].status,
         session |-> meetings[ids[i]].session,
         updated_at |-> meetings[ids[i]].updated_at]]

\* an update without the filter on the id
WriteEveryMeeting(m, updates) ==
  [k \in Meetings |-> IF meetings[k].status = "none" THEN meetings[k]
                      ELSE UpdateMeeting(meetings[k], updates)]

\* the table after databaseService.updateMeeting(m, updates): .eq('id', meetingId)
\* selects the one row that is written
WriteMeeting(m, updates) == [meetings EXCEPT ![m] = UpdateMeeting(@, updates)]

(***************************************************************************)
(* The Provider Gateway: chatterboxService.getSessionData(sessionId)       *)
(***************************************************************************)
\* "error" when the call throws, else whether sessionData.recordingLink is set
GetSessionData(m, up) ==
  IF ~up THEN "error"
  ELSE IF recordingReady[m] THEN "link" ELSE "nolink"

(***************************************************************************)
(* Pipeline executions                                                     *)
(***************************************************************************)
\* a call that passes no recording locator on
NewRunNoLocator(m, pc, url) ==
  [pc |-> pc, m |-> m, url |-> FALSE, retry |-> pc = "retry_begin",
   trace |-> <<>>, failedStep |-> "none"]

\* an execution as it is started: url is the recordingUrl argument of
\* processRecordingUrgently, retry whether retryProcessing awaits it, trace the
\* processStep calls made so far, failedStep the call that threw
NewRun(m, pc, url) ==
  [pc |-> pc, m |-> m, url |-> url, retry |-> pc = "retry_begin",
   trace |-> <<>>, failedStep |-> "none"]

\* a promise is created and not awaited
Dispatch(run) == runs (+) SetToBag({run})

\* an execution goes on to its next await
Move(run, new) == (runs (-) SetToBag({run})) (+) SetToBag({new})

\* an execution returns or throws
Finish(run) == runs (-) SetToBag({run})

CanDispatch == BagCardinality(runs) < MaxRuns

\* the executions that are inside processRecordingUrgently for meeting m
PipelinePcs == {"begin", "fetch_session_data", "validate_recording_url",
                "stream_to_drive", "fetch_transcript", "create_transcript",
                "send_notification", "complete", "catch", "alert"}

InFlight(m) ==
  LET sel == {run \in BagToSet(runs) : run.m = m /\ run.pc \in PipelinePcs}
  IN BagCardinality([run \in sel |-> CopiesIn(run, runs)])

\* an event the service handles: a request, a webhook, a cron firing, the clock
External == events < MaxEvents /\ events' = events + 1

(***************************************************************************)
(* Webhook handlers                                                        *)
(***************************************************************************)
\* webhookController.handleMeetingStarted: createMeeting({status: 'started'})
MeetingStartedCreate(m) ==
  /\ External
  /\ CanCreate(m)
  /\ joining[m] = "none"
  /\ meetings' = [meetings EXCEPT ![m] = CreateMeeting("started", FALSE)]
  /\ joining' = [joining EXCEPT ![m] = "calendar"]
  /\ UNCHANGED <<tick, recordingReady, runs, poll, alert, stepIn, stepOut, attempts, job, server>>

\* webhookController.handleMeetingStarted: joinMeeting, then updateMeeting with the
\* session id and status 'bot_joined'; an error of either ends the handler (500)
MeetingStartedJoin(m) ==
  /\ joining[m] = "calendar"
  /\ joining' = [joining EXCEPT ![m] = "done"]
  /\ \E ok \in BOOLEAN :
       meetings' = IF ok
                     THEN WriteMeeting(m, [session |-> TRUE, status |-> "bot_joined"])
                     ELSE meetings
  /\ UNCHANGED <<tick, events, recordingReady, runs, poll, alert, stepIn, stepOut, attempts,
                 job, server>>

\* chatterboxDirectController.createMeetingAndJoinBot: createMeeting({status: 'started'})
DirectCreate(m) ==
  /\ External
  /\ CanCreate(m)
  /\ joining[m] = "none"
  /\ meetings' = [meetings EXCEPT ![m] = CreateMeeting("started", FALSE)]
  /\ joining' = [joining EXCEPT ![m] = "direct"]
  /\ UNCHANGED <<tick, recordingReady, runs, poll, alert, stepIn, stepOut, attempts, job, server>>

\* chatterboxDirectController.createMeetingAndJoinBot: joinMeeting, then updateMeeting
\* with the session id and status 'bot_joining'
DirectJoin(m) ==
  /\ joining[m] = "direct"
  /\ joining' = [joining EXCEPT ![m] = "done"]
  /\ \E ok \in BOOLEAN :
       meetings' = IF ok
                     THEN WriteMeeting(m, [session |-> TRUE, status |-> "bot_joining"])
                     ELSE meetings
  /\ UNCHANGED <<tick, events, recordingReady, runs, poll, alert, stepIn, stepOut, attempts,
                 job, server>>

\* chatterboxDirectController.handleSessionStarted: a row found by session id is
\* set to 'recording'; with no row for the session a row is created in 'recording'
SessionStarted(m) ==
  /\ External
  /\ \/ /\ meetings[m].session
        /\ meetings' = WriteMeeting(m, [status |-> "recording"])
        /\ UNCHANGED joining
     \/ /\ CanCreate(m)
        /\ joining[m] = "none"
        /\ meetings' = [meetings EXCEPT ![m] = CreateMeeting("recording", TRUE)]
        /\ joining' = [joining EXCEPT ![m] = "done"]
  /\ UNCHANGED <<tick, recordingReady, runs, poll, alert, stepIn, stepOut, attempts, job, server>>

\* webhookController.handleChatterBoxWebhook, type 'started': a row found by
\* session id is set to 'recording'
WebhookStarted(m) ==
  /\ External
  /\ meetings[m].session
  /\ meetings' = WriteMeeting(m, [status |-> "recording"])
  /\ UNCHANGED <<tick, recordingReady, joining, runs, poll, alert, stepIn, stepOut, attempts,
                 job, server>>

\* the createMeetingAndJoinBot call whose joinMeeting opens the session: the
\* session exists once joinMeeting is called, so no started event of it is handled
\* before this call has begun (a session that no such call opened has started
\* events only)
SessionCreate(m) ==
  /\ \A k \in Meetings : joining[k] = "none"
  /\ DirectCreate(m)

\* databaseService.getMeetingBySessionId(sessionId) for the session of the started
\* events: .eq('chatterbox_session_id', sessionId).single() gives the row when
\* exactly one carries the id, and null (0 here) when none or several do
GetMeetingBySessionId ==
  LET found == {k \in Meetings : meetings[k].status # "none" /\ meetings[k].session}
  IN IF Cardinality(found) = 1 THEN CHOOSE k \in found : TRUE ELSE 0

\* handleSessionStarted up to its first write, m being the handler: the row found
\* by session id is set to 'recording'; with none found (and no calendar event for
\* the session) the handler goes on to create a row
StartedLookup(m) ==
  /\ External
  /\ joining[m] = "none"
  /\ meetings[m].status = "none"
  /\ IF GetMeetingBySessionId # 0
       THEN /\ meetings' = WriteMeeting(GetMeetingBySessionId, [status |-> "recording"])
            /\ UNCHANGED joining
       ELSE /\ joining' = [joining EXCEPT ![m] = "fallback"]
            /\ UNCHANGED meetings
  /\ UNCHANGED <<tick, recordingReady, runs, poll, alert, stepIn, stepOut, attempts, job, server>>

\* handleSessionStarted, the fallback: createMeeting({calendar_event_id:
\* `chatterbox-${sessionId}`, chatterbox_session_id: sessionId, status: 'recording'});
\* calendar_event_id is UNIQUE, so the insert is rejected when a row with this key
\* exists (a row created here), and the handler then logs and returns
StartedInsert(m) ==
  /\ joining[m] = "fallback"
  /\ \E ok \in BOOLEAN :
       IF ok /\ \A k \in Meetings : joining[k] # "inserted"
         THEN /\ meetings' = [meetings EXCEPT ![m] = CreateMeeting("recording", TRUE)]
              /\ joining' = [joining EXCEPT ![m] = "inserted"]
         ELSE /\ joining' = [joining EXCEPT ![m] = "rejected"]
              /\ UNCHANGED meetings
  /\ UNCHANGED <<tick, events, recordingReady, runs, poll, alert, stepIn, stepOut, attempts,
                 job, server>>

\* handleSessionFinished and handleChatterBoxWebhook type 'finished': the meeting is
\* looked up by session id and processRecordingUrgently(meeting.id, recordingUrl ||
\* null, sessionId) is started without being awaited
SessionFinished(m, url) ==
  /\ External
  /\ meetings[m].session
  /\ CanDispatch
  /\ runs' = Dispatch(NewRun(m, "begin", url))
  /\ UNCHANGED <<tick, recordingReady, meetings, joining, poll, alert, stepIn, stepOut,
                 attempts, job, server>>

\* webhookController.retryMeetingProcessing: refused for a meeting read as
\* 'completed' or 'processing' or without session id, else retryProcessing is
\* started without being awaited
RetryRequest(m) ==
  /\ External
  /\ meetings[m].status \notin {"none", "completed", "processing"}
  /\ meetings[m].session
  /\ CanDispatch
  /\ runs' = Dispatch(NewRun(m, "retry_begin", FALSE))
  /\ UNCHANGED <<tick, recordingReady, meetings, joining, poll, alert, stepIn, stepOut,
                 attempts, job, server>>

\* webhookController.manualProcessMeeting: for any meeting with a session id
\* manualProcessMeeting is started without being awaited
ManualRequest(m) ==
  /\ External
  /\ meetings[m].status # "none"
  /\ meetings[m].session
  /\ CanDispatch
  /\ runs' = Dispatch(NewRun(m, "manual_fetch", FALSE))
  /\ UNCHANGED <<tick, recordingReady, meetings, joining, poll, alert, stepIn, stepOut,
                 attempts, job, server>>

(***************************************************************************)
(* MeetingService.processRecordingUrgently                                 *)
(***************************************************************************)
\* the processStep calls in the order of the function's text
StepOrder == <<"fetch_session_data", "validate_recording_url", "stream_to_drive",
               "fetch_transcript", "create_transcript", "send_notification">>

StepNames == {StepOrder[i] : i \in 1..Len(StepOrder)}

\* this.processStep(meetingId, step, op) with the default maxRetries: ops are the
\* outcomes of op over the attempts, db how the State Store answers the call's writes
StepInput(ops, db) ==
  [N |-> DefaultMaxRetries, ops |-> ops, logOk |-> db,
   updOk |-> [a \in 1..DefaultMaxRetries |-> db], failOk |-> db]

CallStep(ops, db) == ProcessStep(StepInput(ops, db))

\* how a processStep call of the pipeline can end
StepOutcomes ==
  {CallStep(ops, db).outcome : ops \in [1..DefaultMaxRetries -> BOOLEAN], db \in BOOLEAN}

\* a pipeline that never asks the provider for the locator
FirstStepValidate(url) == "validate_recording_url"

\* the first call: if (!recordingUrl) fetch_session_data, else validate_recording_url
FirstStep(url) == IF url THEN "validate_recording_url" ELSE "fetch_session_data"

\* a pipeline that builds the document right after the upload
StepAfterUpload(step, url) ==
  CASE step = "fetch_session_data" -> "validate_recording_url"
    [] step = "validate_recording_url" -> "stream_to_drive"
    [] step = "stream_to_drive" -> "create_transcript"
    [] step = "fetch_transcript" -> "create_transcript"
    [] step = "create_transcript" -> "send_notification"
    [] step = "send_notification" -> "complete"

\* a pipeline that writes completed without the notification
StepAfterNoNotify(step, url) ==
  CASE step = "fetch_session_data" -> "validate_recording_url"
    [] step = "validate_recording_url" -> "stream_to_drive"
    [] step = "stream_to_drive" ->
         IF url THEN "fetch_transcript" ELSE "create_transcript"
    [] step = "fetch_transcript" -> "create_transcript"
    [] step = "create_transcript" -> "complete"
    [] step = "send_notification" -> "complete"

\* what follows a call that returned: if (!transcriptData) fetch_transcript, and
\* transcriptData is set only by fetch_session_data, which is called only when no
\* recordingUrl was passed
StepAfter(step, url) ==
  CASE step = "fetch_session_data" -> "validate_recording_url"
    [] step = "validate_recording_url" -> "stream_to_drive"
    [] step = "stream_to_drive" ->
         IF url THEN "fetch_transcript" ELSE "create_transcript"
    [] step = "fetch_transcript" -> "create_transcript"
    [] step = "create_transcript" -> "send_notification"
    [] step = "send_notification" -> "complete"

\* handleCriticalError(meetingId, 'urgent_processing', error, context): the step
\* the alert names
CriticalStep(failedStep) == "urgent_processing"

NoAlert == [m |-> 0, step |-> "none"]

\* await databaseService.updateMeeting(meetingId, {status: 'processing', ...}) and
\* getMeetingById: the first statements of the try block
RunBegin(run) ==
  /\ run.pc = "begin"
  /\ \E ok \in BOOLEAN :
       IF ok
         THEN /\ meetings' = WriteMeeting(run.m, [status |-> "processing"])
              /\ runs' = Move(run, [run EXCEPT !.pc = FirstStep(run.url)])
         ELSE /\ runs' = Move(run, [run EXCEPT !.pc = "catch"])
              /\ UNCHANGED meetings
  /\ UNCHANGED <<tick, events, recordingReady, joining, poll, alert, stepIn, stepOut, attempts,
                 job, server>>

\* the statements between a processStep call and the next one: the call's error
\* leaves the try block; after fetch_session_data an error is thrown when the
\* session data holds no recordingLink, after validate_recording_url when the check
\* returned false (the configured check returns true or raises, never false)
StepEffect(run, step, outcome) ==
  LET ok == outcome = "returned"
      nolink == step = "fetch_session_data" /\ ~recordingReady[run.m]
  IN runs' = Move(run, [run EXCEPT
       !.trace = Append(@, [step |-> step, ok |-> ok]),
       !.pc = IF ok /\ ~nolink THEN StepAfter(step, run.url) ELSE "catch",
       !.failedStep = IF ok /\ ~nolink THEN @ ELSE step])

\* one processStep call of the pipeline and the statements up to the next call
RunStep(run, step) ==
  /\ run.pc = step
  /\ \E outcome \in StepOutcomes : StepEffect(run, step, outcome)
  /\ UNCHANGED <<tick, events, recordingReady, meetings, joining, poll, alert,
                 stepIn, stepOut, attempts, job, server>>

\* the same call with its tries in view: what op did on each try and how the State
\* Store answered are kept in stepIn, what processStep did in stepOut, and the row
\* the call left (inserted with meeting_id = meetingId, updated by its own id) is
\* added to the rows of the run's meeting
RunStepCall(run, step) ==
  /\ run.pc = step
  /\ \E ops \in [1..DefaultMaxRetries -> BOOLEAN], db \in BOOLEAN :
       /\ stepIn' = StepInput(ops, db)
       /\ stepOut' = CallStep(ops, db)
       /\ attempts' = [attempts EXCEPT ![run.m] = @ \o CallStep(ops, db).rows]
       /\ StepEffect(run, step, CallStep(ops, db).outcome)
  /\ UNCHANGED <<tick, events, recordingReady, meetings, joining, poll, alert, job, server>>

\* Step 7: updateMeeting(meetingId, {status: 'completed', artifact ids...,
\* processing_completed_at}) and return
RunComplete(run) ==
  /\ run.pc = "complete"
  /\ \E ok \in BOOLEAN :
       IF ok
         THEN /\ meetings' = WriteMeeting(run.m,
                                [status |-> "completed", artifacts |-> TRUE,
                                 completed_at |-> TRUE])
              /\ runs' = Finish(run)
         ELSE /\ runs' = Move(run, [run EXCEPT !.pc = "catch"])
              /\ UNCHANGED meetings
  /\ UNCHANGED <<tick, events, recordingReady, joining, poll, alert, stepIn, stepOut, attempts,
                 job, server>>

\* catch (error): updateMeeting(meetingId, {status: 'failed',
\* processing_completed_at}).catch(log)
RunCatch(run) ==
  /\ run.pc = "catch"
  /\ \E ok \in BOOLEAN :
       meetings' = IF ok
                     THEN WriteMeeting(run.m, [status |-> "failed", completed_at |-> TRUE])
                     ELSE meetings
  /\ runs' = Move(run, [run EXCEPT !.pc = "alert"])
  /\ UNCHANGED <<tick, events, recordingReady, joining, poll, alert, stepIn, stepOut, attempts,
                 job, server>>

\* a catch block out of which the error of the alert goes to the caller
RethrowAlertError(run) ==
  IF run.retry
    THEN Move(run, [run EXCEPT !.pc = "retry_catch", !.failedStep = "alert"])
    ELSE Finish(run)

\* throw error, the last statement of the catch block: the caught error (the run
\* keeps the step that raised it in failedStep) goes to the caller, to the catch
\* block of retryProcessing when that is the caller, else to the rejected promise
Rethrow(run) ==
  IF run.retry
    THEN Move(run, [run EXCEPT !.pc = "retry_catch"])
    ELSE Finish(run)

\* await handleCriticalError(...), which swallows a failure of sendCriticalAlert,
\* then throw error; retryProcessing catches the error of the call it awaits
RunAlert(run) ==
  /\ run.pc = "alert"
  /\ \E sent \in BOOLEAN :
       alert' = IF sent THEN [m |-> run.m, step |-> CriticalStep(run.failedStep)]
                ELSE alert
  /\ runs' = Rethrow(run)
  /\ UNCHANGED <<tick, events, recordingReady, meetings, joining, poll, stepIn, stepOut,
                 attempts, job, server>>

(***************************************************************************)
(* MeetingService.retryProcessing and manualProcessMeeting                 *)
(***************************************************************************)
\* updateMeeting(meetingId, {status: 'processing', processing_started_at})
RetryBegin(run) ==
  /\ run.pc = "retry_begin"
  /\ \E ok \in BOOLEAN :
       IF ok
         THEN /\ meetings' = WriteMeeting(run.m, [status |-> "processing"])
              /\ runs' = Move(run, [run EXCEPT !.pc = "retry_fetch"])
         ELSE /\ runs' = Move(run, [run EXCEPT !.pc = "retry_catch"])
              /\ UNCHANGED meetings
  /\ UNCHANGED <<tick, events, recordingReady, joining, poll, alert, stepIn, stepOut, attempts,
                 job, server>>

\* a retry that starts the pipeline whatever the provider answers
RetryWithoutLocator(run) ==
  /\ run.pc = "retry_fetch"
  /\ \E up \in BOOLEAN :
       runs' = Move(run, [run EXCEPT !.pc = "begin",
                                     !.url = GetSessionData(run.m, up) = "link"])
  /\ UNCHANGED <<tick, events, recordingReady, meetings, joining, poll, alert,
                 stepIn, stepOut, attempts, job, server>>

\* getSessionData; with a recordingLink (isRecordingUrlValid is configured to return
\* true) processRecordingUrgently(meetingId, recordingLink, sessionId) is awaited,
\* else an error is thrown
RetryFetch(run) ==
  /\ run.pc = "retry_fetch"
  /\ \E up \in BOOLEAN :
       runs' = IF GetSessionData(run.m, up) = "link"
                 THEN Move(run, [run EXCEPT !.pc = "begin", !.url = TRUE])
                 ELSE Move(run, [run EXCEPT !.pc = "retry_catch"])
  /\ UNCHANGED <<tick, events, recordingReady, meetings, joining, poll, alert,
                 stepIn, stepOut, attempts, job, server>>

\* catch (error): updateMeeting(meetingId, {status: 'failed'}) and throw error
RetryCatch(run) ==
  /\ run.pc = "retry_catch"
  /\ \E ok \in BOOLEAN :
       meetings' = IF ok
                     THEN WriteMeeting(run.m, [status |-> "failed"])
                     ELSE meetings
  /\ runs' = Finish(run)
  /\ UNCHANGED <<tick, events, recordingReady, joining, poll, alert, stepIn, stepOut, attempts,
                 job, server>>

\* manualProcessMeeting: getSessionData, then processRecordingUrgently(meetingId,
\* sessionData.recordingLink, sessionId) whether or not the link is set
ManualFetch(run) ==
  /\ run.pc = "manual_fetch"
  /\ \E up \in BOOLEAN :
       runs' = IF GetSessionData(run.m, up) = "error"
                 THEN Finish(run)
                 ELSE Move(run, [run EXCEPT !.pc = "begin",
                                            !.url = GetSessionData(run.m, up) = "link"])
  /\ UNCHANGED <<tick, events, recordingReady, meetings, joining, poll, alert,
                 stepIn, stepOut, attempts, job, server>>

(***************************************************************************)
(* PollStatusJob                                                           *)
(***************************************************************************)
IdlePoll == [pc |-> "idle", list |-> <<>>, last |-> "none"]

\* constructor(): this.task = null; this.isRunning = false
StoppedJob == [task |-> FALSE, isRunning |-> FALSE, scheduled |-> 0]

\* the job after the start() of app.listen's callback
RunningJob == [task |-> TRUE, isRunning |-> TRUE, scheduled |-> 1]

\* a start() without the isRunning guard
StartUnguarded(j) ==
  [task |-> TRUE, isRunning |-> TRUE, scheduled |-> j.scheduled + 1]

\* start(): if (this.isRunning) return; this.task = cron.schedule(..., {scheduled:
\* false}); this.task.start(); this.isRunning = true
Start(j) ==
  IF j.isRunning THEN j
  ELSE [task |-> TRUE, isRunning |-> TRUE, scheduled |-> j.scheduled + 1]

\* stop(): if (this.task) { this.task.stop(); this.task = null }; this.isRunning = false
Stop(j) ==
  [task |-> FALSE, isRunning |-> FALSE,
   scheduled |-> IF j.task THEN j.scheduled - 1 ELSE j.scheduled]

\* a call of pollStatusJob.start()
JobStart ==
  /\ External
  /\ job' = Start(job)
  /\ UNCHANGED <<tick, recordingReady, meetings, joining, runs, poll, alert, stepIn, stepOut,
                 attempts, server>>

\* a call of pollStatusJob.stop(): a cycle that is under way goes on
JobStop ==
  /\ External
  /\ job' = Stop(job)
  /\ UNCHANGED <<tick, recordingReady, meetings, joining, runs, poll, alert, stepIn, stepOut,
                 attempts, server>>

\* gracefulShutdown(signal) on SIGTERM or SIGINT: server.close(callback) and
\* setTimeout(forced exit, 30000); the jobs are not touched here
Signal ==
  /\ External
  /\ server = "listening"
  /\ server' = "closing"
  /\ UNCHANGED <<tick, recordingReady, meetings, joining, runs, poll, alert, stepIn, stepOut,
                 attempts, job>>

\* the callback of server.close, called when the last connection has ended:
\* pollStatusJob.stop() and process.exit(0)
ServerClosed ==
  /\ server = "closing"
  /\ server' = "exited"
  /\ job' = Stop(job)
  /\ poll' = IdlePoll
  /\ UNCHANGED <<tick, events, recordingReady, meetings, joining, runs, alert, stepIn, stepOut,
                 attempts>>

\* the timeout of gracefulShutdown: process.exit(1), after which no timer fires
ForcedExit ==
  /\ server = "closing"
  /\ server' = "exited"
  /\ job' = [job EXCEPT !.scheduled = 0]
  /\ poll' = IdlePoll
  /\ UNCHANGED <<tick, events, recordingReady, meetings, joining, runs, alert, stepIn, stepOut,
                 attempts>>

\* a checkMeetingStatus without the ceiling branch
CheckStuckOnly(e) ==
  IF ~e.session THEN "skip"
  ELSE IF e.status = "bot_joined" /\ StatusAgeMinutes(e) > BotJoinedMinutes THEN "query"
  ELSE IF e.status = "recording" /\ StatusAgeMinutes(e) > RecordingMinutes THEN "query"
  ELSE "none"

\* a checkMeetingStatus that asks the provider whatever the age of the status
CheckAnyAge(e) ==
  IF ~e.session THEN "skip"
  ELSE IF e.status = "bot_joined" /\ StatusAgeMinutes(e) > CeilingMinutes THEN "forcefail"
  ELSE IF e.status \in {"bot_joined", "recording"} THEN "query"
  ELSE "none"

\* checkMeetingStatus: what is done for a meeting as it was read
CheckBranch(e) ==
  IF ~e.session THEN "skip"
  ELSE IF e.status = "bot_joined" /\ StatusAgeMinutes(e) > CeilingMinutes THEN "forcefail"
  ELSE IF e.status = "bot_joined" /\ StatusAgeMinutes(e) > BotJoinedMinutes THEN "query"
  ELSE IF e.status = "recording" /\ StatusAgeMinutes(e) > RecordingMinutes THEN "query"
  ELSE "none"

\* a cycle whose error leaves pollMeetingStatuses: the scheduled callback rejects
CycleRaised == [pc |-> "raised", list |-> <<>>, last |-> "cycle_caught"]

\* catch (error) of pollMeetingStatuses: the error is logged and the function returns
CycleCaught == [pc |-> "return", list |-> <<>>, last |-> "cycle_caught"]

\* a loop that an examination's error ends
StopAtError(rest, last) ==
  IF last \in {"query_error", "forcefail_rejected"}
    THEN [pc |-> "return", list |-> <<>>, last |-> last]
    ELSE [pc |-> IF rest = <<>> THEN "return" ELSE "sweep", list |-> rest, last |-> last]

\* a loop that awaits the execution it has started
AwaitRun(rest, last) ==
  [pc |-> IF last = "query_link" THEN "await"
          ELSE IF rest = <<>> THEN "return" ELSE "sweep",
   list |-> rest, last |-> last]

\* checkMeetingStatus has returned (it catches every error of its own): the loop
\* goes on with the rest of allMeetings; last is what the examination did
NextMeeting(rest, last) ==
  [pc |-> IF rest = <<>> THEN "return" ELSE "sweep", list |-> rest, last |-> last]

\* pollMeetingStatuses: healthCheck and getMeetingsByStatus('bot_joined', 10); with
\* the State Store down the error is caught and the cycle ends with nothing done.
\* The model follows one cycle at a time (the scheduler itself fires every 30 s
\* whether or not the cycle before has returned)
StartCycle ==
  /\ job.scheduled > 0
  /\ poll.pc = "idle"
  /\ \E ok \in BOOLEAN :
       poll' = IF ok
                 THEN [pc |-> "query_recording",
                       list |-> GetMeetingsByStatus("bot_joined", PollLimit),
                       last |-> "none"]
                 ELSE CycleCaught
  /\ UNCHANGED <<tick, recordingReady, meetings, joining, runs, alert, stepIn, stepOut,
                 attempts, job, server>>

\* a firing of the schedule that the model counts among the events it follows
PollStart == External /\ StartCycle

\* cron.schedule('*/30 * * * * *', ...): the schedule fires again and again, for as
\* long as the process runs
CronFire == StartCycle /\ UNCHANGED events

\* pollMeetingStatuses: getMeetingsByStatus('recording', 10) and
\* allMeetings = [...stuckMeetings, ...recordingMeetings]; if (allMeetings.length
\* === 0) return
PollQueryRecording ==
  /\ poll.pc = "query_recording"
  /\ \E ok \in BOOLEAN :
       poll' = IF ~ok THEN CycleCaught
               ELSE LET all == poll.list \o GetMeetingsByStatus("recording", PollLimit)
                    IN [pc |-> IF all = <<>> THEN "return" ELSE "sweep",
                        list |-> all, last |-> "none"]
  /\ UNCHANGED <<tick, events, recordingReady, meetings, joining, runs, alert,
                 stepIn, stepOut, attempts, job, server>>

\* for (const meeting of allMeetings) await this.checkMeetingStatus(meeting): ok is
\* whether the State Store accepts the write, up whether the provider answers
PollExamine ==
  /\ poll.pc = "sweep"
  /\ \E ok \in BOOLEAN, up \in BOOLEAN :
       LET e == Head(poll.list)
           branch == CheckBranch(e)
           answer == IF branch = "query" THEN GetSessionData(e.id, up) ELSE "none"
           rest == Tail(poll.list)
       IN /\ answer = "link" => CanDispatch
          /\ meetings' = IF branch = "forcefail" /\ ok
                           THEN WriteMeeting(e.id, [status |-> "failed", completed_at |-> TRUE])
                           ELSE meetings
          /\ runs' = IF answer = "link"
                       THEN Dispatch(NewRun(e.id, "begin", TRUE))
                       ELSE runs
          /\ poll' = NextMeeting(rest,
                        IF branch = "query" THEN "query_" \o answer
                        ELSE IF branch = "forcefail" /\ ~ok THEN "forcefail_rejected"
                        ELSE branch)
  /\ UNCHANGED <<tick, events, recordingReady, joining, alert, stepIn, stepOut, attempts, job,
                 server>>

\* the cycle is over: pollMeetingStatuses returns to the scheduler
PollReturn ==
  /\ poll.pc = "return"
  /\ poll' = IdlePoll
  /\ UNCHANGED <<tick, events, recordingReady, meetings, joining, runs, alert,
                 stepIn, stepOut, attempts, job, server>>

(***************************************************************************)
(* The environment                                                         *)
(***************************************************************************)
\* the clock moves on to a later instant
Tick ==
  /\ External
  /\ \E t \in (tick + 1)..Len(ClockPoints) : tick' = t
  /\ UNCHANGED <<recordingReady, meetings, joining, runs, poll, alert, stepIn, stepOut,
                 attempts, job, server>>

\* the provider has the recording of the session of meeting m from now on
RecordingAvailable(m) ==
  /\ meetings[m].session
  /\ ~recordingReady[m]
  /\ recordingReady' = [recordingReady EXCEPT ![m] = TRUE]
  /\ UNCHANGED <<tick, events, meetings, joining, runs, poll, alert, stepIn, stepOut, attempts,
                 job, server>>

(***************************************************************************)
(* Specifications                                                          *)
(***************************************************************************)
Init ==
  /\ tick = 1
  /\ events = 0
  /\ recordingReady = [m \in Meetings |-> FALSE]
  /\ meetings = [m \in Meetings |-> NoRow]
  /\ joining = [m \in Meetings |-> "none"]
  /\ runs = EmptyBag
  /\ poll = IdlePoll
  /\ alert = NoAlert
  /\ stepIn = NoInput
  /\ stepOut = NoResult
  /\ attempts = [m \in Meetings |-> <<>>]
  /\ job = RunningJob
  /\ server = "listening"

RunNext(run) ==
  \/ RunBegin(run)
  \/ \E step \in StepNames : RunStep(run, step)
  \/ RunComplete(run)
  \/ RunCatch(run)
  \/ RunAlert(run)
  \/ RetryBegin(run)
  \/ RetryFetch(run)
  \/ RetryCatch(run)
  \/ ManualFetch(run)

Next ==
  \/ \E m \in Tracked :
       \/ MeetingStartedCreate(m)
       \/ MeetingStartedJoin(m)
       \/ DirectCreate(m)
       \/ DirectJoin(m)
       \/ SessionStarted(m)
       \/ WebhookStarted(m)
       \/ \E url \in BOOLEAN : SessionFinished(m, url)
       \/ RetryRequest(m)
       \/ ManualRequest(m)
       \/ RecordingAvailable(m)
  \/ \E run \in BagToSet(runs) : RunNext(run)
  \/ PollStart
  \/ PollQueryRecording
  \/ PollExamine
  \/ PollReturn
  \/ Tick

Spec == Init /\ [][Next]_vars

\* every pending promise is settled in the end: an execution in flight takes its
\* next step
SpecFair == Spec /\ WF_vars(\E run \in BagToSet(runs) : RunNext(run))

\* processStep alone, over every behaviour of its collaborators
InitStep ==
  /\ tick = 1
  /\ events = 0
  /\ recordingReady = [m \in Meetings |-> FALSE]
  /\ meetings = [m \in Meetings |-> NoRow]
  /\ joining = [m \in Meetings |-> "none"]
  /\ runs = EmptyBag
  /\ poll = IdlePoll
  /\ alert = NoAlert
  /\ stepIn \in AllStepInputs
  /\ stepOut = NoResult
  /\ attempts = [m \in Meetings |-> <<>>]
  /\ job = RunningJob
  /\ server = "listening"

StepCall ==
  /\ stepOut = NoResult
  /\ stepOut' = ProcessStep(stepIn)
  /\ UNCHANGED <<tick, events, recordingReady, meetings, joining, runs, poll, alert,
                 stepIn, attempts, job, server>>

SpecStep == InitStep /\ [][StepCall]_vars

\* one execution of the pipeline with the tries of every step in view: the meeting
\* is recording (meeting.started and the started webhook have been handled) and
\* the last event the model follows is the finished webhook
InitRun ==
  /\ tick = 1
  /\ events = MaxEvents - 1
  /\ recordingReady = [m \in Meetings |-> FALSE]
  /\ meetings = [m \in Meetings |->
                   IF m \in Tracked
                     THEN [NoRow EXCEPT !.status = "recording", !.session = TRUE,
                                        !.updated_at = 1]
                     ELSE NoRow]
  /\ joining = [m \in Meetings |-> IF m \in Tracked THEN "done" ELSE "none"]
  /\ runs = EmptyBag
  /\ poll = IdlePoll
  /\ alert = NoAlert
  /\ stepIn = NoInput
  /\ stepOut = NoResult
  /\ attempts = [m \in Meetings |-> <<>>]
  /\ job = RunningJob
  /\ server = "listening"

NextRun ==
  \/ \E m \in Tracked :
       \/ \E url \in BOOLEAN : SessionFinished(m, url)
       \/ RecordingAvailable(m)
  \/ \E run \in BagToSet(runs) :
       \/ RunBegin(run)
       \/ \E step \in StepNames : RunStepCall(run, step)
       \/ RunComplete(run)
       \/ RunCatch(run)
       \/ RunAlert(run)

SpecRun == InitRun /\ [][NextRun]_vars

\* two meetings that are recording, a finished webhook with the recording
\* locator for each, and the two executions with the tries and the
\* processing_logs rows of their steps in view
InitPair ==
  /\ tick = 1
  /\ events = MaxEvents - 2
  /\ recordingReady = [m \in Meetings |-> FALSE]
  /\ meetings = [m \in Meetings |->
                   [NoRow EXCEPT !.status = "recording", !.session = TRUE,
                                 !.updated_at = 1]]
  /\ joining = [m \in Meetings |-> "done"]
  /\ runs = EmptyBag
  /\ poll = IdlePoll
  /\ alert = NoAlert
  /\ stepIn = NoInput
  /\ stepOut = NoResult
  /\ attempts = [m \in Meetings |-> <<>>]
  /\ job = RunningJob
  /\ server = "listening"

\* a step of one execution
RunCallNext(run) ==
  \/ RunBegin(run)
  \/ \E step \in StepNames : RunStepCall(run, step)
  \/ RunComplete(run)
  \/ RunCatch(run)
  \/ RunAlert(run)

NextPair ==
  \/ \E m \in Meetings : SessionFinished(m, TRUE)
  \/ \E run \in BagToSet(runs) : RunCallNext(run)

SpecPair == InitPair /\ [][NextPair]_vars

\* the poller over two meetings that wait for their recording: each has joined
\* (bot_joined) or has started recording, and has its session id; started
\* webhooks arrive; the executions the poller starts are pending and take no step
InitPoll ==
  /\ tick = 1
  /\ events = 0
  /\ recordingReady = [m \in Meetings |-> FALSE]
  /\ meetings \in [Meetings -> {[NoRow EXCEPT !.status = st, !.session = TRUE,
                                               !.updated_at = 1] :
                                   st \in {"bot_joined", "recording"}}]
  /\ joining = [m \in Meetings |-> "done"]
  /\ runs = EmptyBag
  /\ poll = IdlePoll
  /\ alert = NoAlert
  /\ stepIn = NoInput
  /\ stepOut = NoResult
  /\ attempts = [m \in Meetings |-> <<>>]
  /\ job = RunningJob
  /\ server = "listening"

NextPoll ==
  \/ \E m \in Meetings :
       \/ RecordingAvailable(m)
       \/ WebhookStarted(m)
  \/ PollStart
  \/ PollQueryRecording
  \/ PollExamine
  \/ PollReturn
  \/ Tick

SpecPoll == InitPoll /\ [][NextPoll]_vars

\* the retry endpoint over a meeting whose processing has failed: requests to
\* retry arrive, the clock moves on, the provider may come to hold the recording
InitRetry ==
  /\ tick = 1
  /\ events = MaxEvents - 2
  /\ recordingReady = [m \in Meetings |-> FALSE]
  /\ meetings = [m \in Meetings |->
                   IF m \in Tracked
                     THEN [NoRow EXCEPT !.status = "failed", !.session = TRUE,
                                        !.updated_at = 1, !.completed_at = TRUE]
                     ELSE NoRow]
  /\ joining = [m \in Meetings |-> IF m \in Tracked THEN "done" ELSE "none"]
  /\ runs = EmptyBag
  /\ poll = IdlePoll
  /\ alert = NoAlert
  /\ stepIn = NoInput
  /\ stepOut = NoResult
  /\ attempts = [m \in Meetings |-> <<>>]
  /\ job = RunningJob
  /\ server = "listening"

RetryNext(run) ==
  \/ RetryBegin(run)
  \/ RetryFetch(run)
  \/ RetryCatch(run)
  \/ RunBegin(run)
  \/ \E step \in StepNames : RunStep(run, step)
  \/ RunComplete(run)
  \/ RunCatch(run)
  \/ RunAlert(run)

NextRetry ==
  \/ \E m \in Tracked :
       \/ RetryRequest(m)
       \/ RecordingAvailable(m)
  \/ \E run \in BagToSet(runs) : RetryNext(run)
  \/ Tick

SpecRetry == InitRetry /\ [][NextRetry]_vars

\* the poller over one meeting more than a query returns: PollLimit + 1 meetings
\* with their session ids, whose provider never comes to hold a recording; the
\* newest two have joined or are recording, the others are recording; the
\* schedule fires for ever and the clock moves on
Crowd == 1..(PollLimit + 1)

InitCrowd ==
  /\ tick = 1
  /\ events = 0
  /\ recordingReady = [m \in Crowd |-> FALSE]
  /\ \E newest \in [{PollLimit, PollLimit + 1} -> {"bot_joined", "recording"}] :
       meetings = [m \in Crowd |->
                     [NoRow EXCEPT !.status = IF m < PollLimit THEN "recording"
                                              ELSE newest[m],
                                   !.session = TRUE, !.updated_at = 1]]
  /\ joining = [m \in Crowd |-> "done"]
  /\ runs = EmptyBag
  /\ poll = IdlePoll
  /\ alert = NoAlert
  /\ stepIn = NoInput
  /\ stepOut = NoResult
  /\ attempts = [m \in Crowd |-> <<>>]
  /\ job = RunningJob
  /\ server = "listening"

NextCrowd ==
  \/ CronFire
  \/ PollQueryRecording
  \/ PollExamine
  \/ PollReturn
  \/ Tick

\* the schedule keeps firing and every await of a cycle settles
SpecCrowd ==
  /\ InitCrowd
  /\ [][NextCrowd]_vars
  /\ WF_vars(CronFire)
  /\ WF_vars(PollQueryRecording)
  /\ WF_vars(PollExamine)
  /\ WF_vars(PollReturn)

\* one provider session: createMeetingAndJoinBot creates the meeting and asks the
\* bot to join, and the started events of the session arrive, each handled by
\* its own handleSessionStarted; a row's session flag says that the row carries
\* the id of this session
NextSession ==
  \/ \E m \in Meetings :
       \/ SessionCreate(m)
       \/ DirectJoin(m)
       \/ StartedLookup(m)
       \/ StartedInsert(m)
  \/ Tick

SpecSession == Init /\ [][NextSession]_vars

\* the poller while the process is shut down: a signal arrives, the HTTP server
\* closes when its connections have ended, or the forced exit comes first
NextShutdown ==
  \/ Signal
  \/ ServerClosed
  \/ ForcedExit
  \/ PollStart
  \/ PollQueryRecording
  \/ PollExamine
  \/ PollReturn
  \/ Tick

SpecShutdown == InitPoll /\ [][NextShutdown]_vars

\* PollStatusJob under any sequence of start() and stop() calls, from its
\* constructor on
InitJob ==
  /\ tick = 1
  /\ events = 0
  /\ recordingReady = [m \in Meetings |-> FALSE]
  /\ meetings \in [Meetings -> {[NoRow EXCEPT !.status = st, !.session = TRUE,
                                               !.updated_at = 1] :
                                   st \in {"bot_joined", "recording"}}]
  /\ joining = [m \in Meetings |-> "done"]
  /\ runs = EmptyBag
  /\ poll = IdlePoll
  /\ alert = NoAlert
  /\ stepIn = NoInput
  /\ stepOut = NoResult
  /\ attempts = [m \in Meetings |-> <<>>]
  /\ job = StoppedJob
  /\ server = "listening"

NextJob ==
  \/ JobStart
  \/ JobStop
  \/ PollStart
  \/ PollQueryRecording
  \/ PollExamine
  \/ PollReturn
  \/ Tick

SpecJob == InitJob /\ [][NextJob]_vars

(***************************************************************************)
(* Properties                                                              *)
(***************************************************************************)
\* the tries of op in one processStep call, in order
OpEvents(out) == SelectSeq(out.events, LAMBDA e : e.ev = "op")

SomeTrySucceeded(out) == \E i \in 1..Len(OpEvents(out)) : OpEvents(out)[i].ok

\* the names of the processStep calls a run has made, in order
TraceSteps(run) == [i \in 1..Len(run.trace) |-> run.trace[i].step]

IsPrefix(s, t) == Len(s) <= Len(t) /\ \A i \in 1..Len(s) : s[i] = t[i]

\* C1: for every meeting at most one execution of processRecordingUrgently is in
\* flight at any instant, whatever started the executions
AtMostOneInFlight == \A m \in Meetings : InFlight(m) <= 1

\* C2: the delivery of a finished event for a meeting that is processing,
\* completed or failed starts no execution of the pipeline
FinishedIsNoOp ==
  [][\A m \in Meetings, url \in BOOLEAN :
       (meetings[m].status \in {"processing", "completed", "failed"}
          /\ SessionFinished(m, url)) => runs' = runs]_vars

\* C3: no step of the system moves a meeting's status backwards in the order
\* started < bot_joining < bot_joined < recording < processing < {completed,
\* failed}, except from failed to processing
StatusNeverRegresses ==
  [][\A m \in Meetings :
       \/ Rank(meetings'[m].status) >= Rank(meetings[m].status)
       \/ meetings[m].status = "failed" /\ meetings'[m].status = "processing"]_vars

\* C4 as stated: a processStep call leaves one row per try of op, the rows before
\* the last failed and the last completed when a try succeeded, all N rows failed
\* when none did
FreshRowPerTry ==
  stepOut # NoResult =>
    LET k == Len(OpEvents(stepOut))
        rows == stepOut.rows
    IN /\ Len(rows) = k
       /\ k <= stepIn.N
       /\ SomeTrySucceeded(stepOut) =>
            /\ \A i \in 1..(k - 1) : rows[i] = "failed"
            /\ rows[k] = "completed"
       /\ ~SomeTrySucceeded(stepOut) =>
            /\ k = stepIn.N
            /\ \A i \in 1..k : rows[i] = "failed"

\* C4 amended: a processStep call inserts one row before the first try and updates
\* that row in place; it leaves no row when the insert is rejected, else exactly one
\* row, which is completed exactly when the call returned, failed when the call
\* threw and the last update was accepted, and still started when that update was
\* rejected
OneRowPerCall ==
  stepOut # NoResult =>
    /\ Len(stepOut.rows) <= 1
    /\ Len(stepOut.rows) = 0 <=> ~stepIn.logOk
    /\ Len(stepOut.rows) = 1 =>
         /\ stepOut.rows[1] = "completed" <=> stepOut.outcome = "returned"
         /\ stepOut.rows[1] = "failed" <=> stepOut.outcome = "raised" /\ stepIn.failOk
         /\ stepOut.rows[1] = "started" <=> stepOut.outcome = "raised" /\ ~stepIn.failOk
    /\ Len(OpEvents(stepOut)) <= stepIn.N

\* Scenario C: op fails twice and succeeds at the third try of three, and the one
\* row of the call is completed
ScenarioCOneRow ==
  /\ stepIn.N = 3
  /\ stepIn.ops = <<FALSE, FALSE, TRUE>>
  /\ stepIn.logOk /\ stepIn.updOk[3]
  /\ Len(OpEvents(stepOut)) = 3
  /\ stepOut.rows = <<"completed">>

\* the order of the five steps of the specification
FiveSteps(url) ==
  IF url
    THEN <<"validate_recording_url", "stream_to_drive", "create_transcript",
           "send_notification">>
    ELSE <<"fetch_session_data", "validate_recording_url", "stream_to_drive",
           "create_transcript", "send_notification">>

\* the order of the processStep calls of processRecordingUrgently
SixSteps(url) ==
  IF url
    THEN <<"validate_recording_url", "stream_to_drive", "fetch_transcript",
           "create_transcript", "send_notification">>
    ELSE <<"fetch_session_data", "validate_recording_url", "stream_to_drive",
           "create_transcript", "send_notification">>

\* a run has tried its steps in the order `order`, each after the one before it
\* returned, and none after a step that threw
RunsInOrder(run, order) ==
  /\ IsPrefix(TraceSteps(run), order)
  /\ \A i \in 1..(Len(run.trace) - 1) : run.trace[i].ok
  /\ run.pc \in StepNames =>
       /\ Len(run.trace) < Len(order)
       /\ run.pc = order[Len(run.trace) + 1]
       /\ \A i \in 1..Len(run.trace) : run.trace[i].ok
  /\ (run.trace # <<>> /\ ~run.trace[Len(run.trace)].ok) =>
       run.pc \in {"catch", "alert", "retry_catch"}

\* C5 as stated: the steps of a run start in the order fetch-metadata (only when no
\* locator was supplied), validate-source, transfer-binary, generate-document,
\* notify, and no step is tried after a step that exhausted its retries
FiveStepOrder ==
  \A run \in BagToSet(runs) : RunsInOrder(run, FiveSteps(run.url))

\* C5 amended: the steps of a run start in the order fetch_session_data (only when
\* no locator was supplied), validate_recording_url, stream_to_drive,
\* fetch_transcript (only when a locator was supplied), create_transcript,
\* send_notification, each after the one before it returned, and no step is tried
\* after a step that exhausted its retries
SixStepOrder ==
  \A run \in BagToSet(runs) : RunsInOrder(run, SixSteps(run.url))

\* a run that was given a locator has made all its calls, fetch_transcript among
\* them, and is about to write completed
RunWithLocatorDone ==
  \E run \in BagToSet(runs) :
    /\ run.url /\ run.pc = "complete"
    /\ TraceSteps(run) = SixSteps(TRUE)

\* C6: a processStep call returns exactly when some try of op succeeded, and when
\* op failed at all N tries it throws the error of the last try
ReturnsIffSomeTrySucceeded ==
  stepOut # NoResult =>
    /\ stepOut.outcome = "returned" <=> SomeTrySucceeded(stepOut)
    /\ (Len(OpEvents(stepOut)) = stepIn.N /\ ~SomeTrySucceeded(stepOut)) =>
         stepOut.outcome = "raised" /\ stepOut.error = "op"

\* C7: the alert a run sends after one of its steps threw names the meeting of the
\* run and the step that threw
AlertNamesFailedStep ==
  [][\A run \in BagToSet(runs) :
       (run.pc = "alert" /\ run.failedStep \in StepNames /\ RunAlert(run)
          /\ alert' # alert) =>
         alert' = [m |-> run.m, step |-> run.failedStep]]_vars

\* C8: the waits of a processStep call are 2 s, 4 s, 8 s, ... in this order, and
\* each wait directly follows a try of op that failed and was not the last try
WaitsOnlyAfterFailedTry ==
  stepOut # NoResult =>
    \A i \in 1..Len(stepOut.events) :
      stepOut.events[i].ev = "wait" =>
        /\ i > 1
        /\ stepOut.events[i - 1].ev = "op"
        /\ ~stepOut.events[i - 1].ok
        /\ stepOut.events[i - 1].attempt < stepIn.N
        /\ stepOut.events[i].ms = 1000 * (2 ^ stepOut.events[i - 1].attempt)
        /\ \A j \in 1..(i - 1) :
             stepOut.events[j].ev = "wait" => stepOut.events[j].ms < stepOut.events[i].ms

\* the number of entries of a poll cycle's list that are for meeting m
Listed(list, m) == Cardinality({i \in 1..Len(list) : list[i].id = m})

PollerRecovers ==
  /\ [][(poll.pc = "sweep" /\ poll' # poll) =>
          LET e == Head(poll.list) IN
          (e.status = "bot_joined" /\ e.session /\ recordingReady[e.id]
             /\ Now - ClockPoints[e.updated_at] > 2
             /\ Now - ClockPoints[e.updated_at] <= 180) =>
            \/ poll'.last = "query_error" /\ runs' = runs
            \/ /\ poll'.last = "query_link"
               /\ runs' = runs (+) SetToBag({[pc |-> "begin", m |-> e.id, url |-> TRUE,
                                              retry |-> FALSE, trace |-> <<>>,
                                              failedStep |-> "none"]})]_vars
  /\ \A m \in Tracked :
       (\E run \in BagToSet(runs) : run.m = m /\ run.pc = "begin")
         ~> \/ meetings[m].status = "completed"
            \/ \E run \in BagToSet(runs) : run.m = m /\ run.pc = "catch"

\* Scenario A: the poller found the recording of a meeting that was bot_joined for
\* 15 minutes, and the meeting is completed with its artifacts
ScenarioACompleted ==
  /\ poll.last = "query_link"
  /\ Now = 15
  /\ \E m \in Meetings : meetings[m].status = "completed" /\ meetings[m].artifacts

\* the State Store accepted the writes of a processStep call and op succeeded on
\* some try, after none or some failed tries
Absorbed(in) == in.logOk /\ \E a \in 1..in.N : in.ops[a] /\ in.updOk[a]

\* C11: a step whose op fails on fewer than maxRetries tries and then succeeds,
\* with the State Store accepting the writes, hands the run to the following step
\* and neither writes the meeting nor sends an alert; a run that no step and no
\* State Store write has failed never has its meeting failed or an alert sent, and
\* its last write sets the meeting to completed
TransientErrorsAbsorbed ==
  /\ [][\A run \in BagToSet(runs), step \in StepNames :
          (/\ RunStepCall(run, step)
           /\ Absorbed(stepIn')
           /\ step = "fetch_session_data" => recordingReady[run.m])
            => /\ runs' = Move(run, [run EXCEPT
                     !.trace = Append(@, [step |-> step, ok |-> TRUE]),
                     !.pc = StepAfter(step, run.url)])
               /\ meetings' = meetings
               /\ alert' = alert]_vars
  /\ [](\A run \in BagToSet(runs) :
          run.pc \notin {"catch", "alert"}
            => /\ \A i \in 1..Len(run.trace) : run.trace[i].ok
               /\ meetings[run.m].status # "failed"
               /\ alert = NoAlert)
  /\ [][\A run \in BagToSet(runs) :
          RunComplete(run) /\ meetings' # meetings
            => /\ meetings'[run.m].status = "completed"
               /\ alert' = NoAlert
               /\ runs' = Finish(run)]_vars

\* Scenario C: the upload failed twice and succeeded on the third try, and the run
\* has gone on to the step after it
ScenarioCAbsorbed ==
  \E run \in BagToSet(runs) :
    /\ stepIn = StepInput(<<FALSE, FALSE, TRUE>>, TRUE)
    /\ stepOut.result = 3
    /\ run.trace # <<>>
    /\ run.trace[Len(run.trace)] = [step |-> "stream_to_drive", ok |-> TRUE]
    /\ run.pc = StepAfter("stream_to_drive", run.url)
    /\ meetings[run.m].status = "processing"
    /\ alert = NoAlert

\* C12: whatever the accessibility check does, the run goes on from
\* validate_recording_url to stream_to_drive, and the catch block does not set the
\* meeting to failed for an error of validate_recording_url (the State Store
\* accepting the writes of the call)
ValidationNeverBlocks ==
  /\ [][\A run \in BagToSet(runs) :
          RunStepCall(run, "validate_recording_url") /\ stepIn'.logOk
            => \E new \in BagToSet(runs') : new.pc = "stream_to_drive"]_vars
  /\ [][\A run \in BagToSet(runs) :
          (/\ RunCatch(run)
           /\ run.failedStep = "validate_recording_url"
           /\ stepIn.logOk)
            => meetings'[run.m].status # "failed"]_vars

\* C13: when the calls before send_notification have returned, the run goes on to
\* the write of completed even if every try of the notification fails (the State
\* Store accepting the writes of the call)
NotificationNonFatal ==
  [][\A run \in BagToSet(runs) :
       RunStepCall(run, "send_notification") /\ stepIn'.logOk
         => \E new \in BagToSet(runs') : new.pc = "complete"]_vars

\* C14: a meeting whose status is completed or failed has its completion
\* timestamp set
CompletionTimestampRecorded ==
  \A m \in Meetings :
    meetings[m].status \in {"completed", "failed"} => meetings[m].completed_at

\* C15: after the alert call of the catch block, delivered or not, the execution
\* ends by raising the error it caught: the promise of a fire-and-forget call is
\* rejected, and retryProcessing receives in its catch block the error of the step
\* that failed; the alert call changes no meeting
OriginalErrorRaised ==
  [][\A run \in BagToSet(runs) :
       RunAlert(run)
         => /\ meetings' = meetings
            /\ alert' \in {alert, [m |-> run.m, step |-> CriticalStep(run.failedStep)]}
            /\ IF run.retry
                 THEN \E new \in BagToSet(runs') :
                        /\ new.pc = "retry_catch"
                        /\ new.failedStep = run.failedStep
                        /\ new.trace = run.trace
                        /\ runs' = Move(run, new)
                 ELSE runs' = Finish(run)]_vars

\* a stream_to_drive call has failed, no alert was ever delivered, and the error
\* of the step has reached the catch block of retryProcessing
AlertFailedErrorRaised ==
  \E run \in BagToSet(runs) :
    /\ run.pc = "retry_catch"
    /\ run.failedStep = "stream_to_drive"
    /\ alert = NoAlert

\* C16: retryProcessing starts its work (the write of processing) only on a
\* meeting whose status is then neither completed nor processing
RetryStartsOnlyWhenIdle ==
  [][\A run \in BagToSet(runs) :
       RetryBegin(run) => meetings[run.m].status \notin {"completed", "processing"}]_vars

\* C17: a failed meeting is moved to processing only while the provider reports a
\* recording locator for its session
RecoveryOnlyWithLocator ==
  [][\A m \in Meetings :
       meetings[m].status = "failed" /\ meetings'[m].status = "processing"
         => recordingReady[m]]_vars

\* C18: a completed meeting keeps its status, and a failed meeting keeps it or
\* moves to processing
TerminalStatuses ==
  [][\A m \in Meetings :
       /\ meetings[m].status = "completed" => meetings'[m].status = "completed"
       /\ meetings[m].status = "failed"
            => meetings'[m].status \in {"failed", "processing"}]_vars

\* C19: when the examination of a meeting fails (the provider's call throws, or
\* the State Store rejects the write of failed), no meeting is changed and no
\* execution is started by that examination, and the cycle goes on with every
\* other meeting of its list: each examination takes exactly the head off the
\* list, and the cycle returns only when the list is empty
ExaminationErrorSkipped ==
  [][(poll.pc = "sweep" /\ poll' # poll) =>
       /\ poll'.list = Tail(poll.list)
       /\ poll'.pc = IF Tail(poll.list) = <<>> THEN "return" ELSE "sweep"
       /\ poll'.last \in {"query_error", "forcefail_rejected"}
            => meetings' = meetings /\ runs' = runs]_vars

\* the provider's call for the first meeting of a cycle's list has thrown, and the
\* cycle is about to examine the other meeting, whose recording is ready
ErrorThenNextMeeting ==
  /\ poll.pc = "sweep"
  /\ poll.last = "query_error"
  /\ Len(poll.list) = 1
  /\ CheckBranch(poll.list[1]) = "query"
  /\ recordingReady[poll.list[1].id]

\* C20: a cycle in which a query of the State Store fails ends caught: it changes
\* no meeting and starts no execution, it returns to the scheduler, and the next
\* cycle can start
CycleNeverRaises ==
  /\ [][(poll'.last = "cycle_caught" /\ poll' # poll)
          => meetings' = meetings /\ runs' = runs /\ alert' = alert]_vars
  /\ [](poll.last = "cycle_caught" => poll.pc = "return" /\ poll.list = <<>>)
  /\ [][poll.last = "cycle_caught" /\ poll' # poll => poll' = IdlePoll]_vars
  /\ [](poll.pc = "return" => ENABLED PollReturn)
  /\ [](poll = IdlePoll /\ events < MaxEvents => ENABLED PollStart)

\* the State Store failed a cycle's query while a meeting past the bot_joined
\* threshold had its recording ready: nothing was started
CycleCaughtNothingDone ==
  /\ poll.last = "cycle_caught"
  /\ runs = EmptyBag
  /\ \E m \in Meetings :
       /\ meetings[m].status = "bot_joined"
       /\ StatusAgeMinutes(meetings[m]) > BotJoinedMinutes
       /\ recordingReady[m]

\* C21: the examination that starts an execution leaves it pending at its first
\* statement and goes on in the same step to the next meeting or to the end of the
\* cycle; no step of an execution, whether it succeeds, fails or raises, changes
\* the poll cycle; and with executions in flight the cycle can always take its
\* next step
DispatchFireAndForget ==
  /\ [][(poll.pc = "sweep" /\ poll'.last = "query_link" /\ poll' # poll) =>
          /\ poll'.pc = IF Tail(poll.list) = <<>> THEN "return" ELSE "sweep"
          /\ runs' = Dispatch(NewRun(Head(poll.list).id, "begin", TRUE))]_vars
  /\ [][\A run \in BagToSet(runs) : RunNext(run) => poll' = poll]_vars
  /\ [](runs # EmptyBag =>
          /\ poll.pc = "sweep" => ENABLED PollExamine
          /\ poll.pc = "query_recording" => ENABLED PollQueryRecording
          /\ poll.pc = "return" => ENABLED PollReturn)

\* the cycle that started an execution has returned to the scheduler while the
\* execution has not yet taken a step
CycleOverRunPending ==
  /\ poll.pc = "return"
  /\ poll.last = "query_link"
  /\ \E run \in BagToSet(runs) : run.pc = "begin" /\ run.url /\ run.trace = <<>>
  /\ \A m \in Tracked : meetings[m].status = "bot_joined"

\* C22: a step of an execution for meeting m leaves the Meeting row and the
\* processing_logs rows of every other meeting as they were
RunsDoNotInterfere ==
  [][\A run \in BagToSet(runs) :
       RunCallNext(run)
         => \A k \in Meetings \ {run.m} :
              meetings'[k] = meetings[k] /\ attempts'[k] = attempts[k]]_vars

\* two executions in flight at once: the one for meeting 1 has failed at its
\* upload and set its meeting to failed, the one for meeting 2 is past its upload
TwoRunsInterleaved ==
  /\ \E run \in BagToSet(runs) :
       run.m = 1 /\ run.pc = "alert" /\ run.failedStep = "stream_to_drive"
  /\ \E run \in BagToSet(runs) :
       run.m = 2 /\ run.pc = "create_transcript"
  /\ meetings[1].status = "failed"
  /\ meetings[2].status = "processing"
  /\ attempts[1][Len(attempts[1])] = "failed"
  /\ \A i \in 1..Len(attempts[2]) : attempts[2][i] = "completed"

\* C23: a meeting whose status is processing has an execution in flight
NoOrphanProcessing ==
  \A m \in Meetings :
    meetings[m].status = "processing" => \E run \in BagToSet(runs) : run.m = m

\* C24: within one processStep call no try of op follows a try of op that
\* succeeded
NoTryAfterSuccess ==
  stepOut # NoResult =>
    \A i, j \in 1..Len(OpEvents(stepOut)) :
      i < j => ~OpEvents(stepOut)[i].ok

\* C25: in every state in which an alert has been sent for a meeting, the stored
\* status of that meeting is failed
FailedBeforeAlert ==
  alert # NoAlert => meetings[alert.m].status = "failed"

\* C26: the status of a meeting is set to completed only by the last write of an
\* execution all of whose processStep calls returned, the upload, the transcript
\* document and the notification among them, and that write stores the artifact
\* references; a completed meeting has its artifact references
CompletedOnlyOnFullSuccess ==
  /\ [](\A m \in Meetings : meetings[m].status = "completed" => meetings[m].artifacts)
  /\ [][\A m \in Meetings :
          (meetings'[m].status = "completed" /\ meetings'[m] # meetings[m])
            => /\ meetings'[m].artifacts /\ meetings'[m].completed_at
               /\ \E run \in BagToSet(runs) :
                    /\ run.m = m
                    /\ RunComplete(run)
                    /\ \A i \in 1..Len(run.trace) : run.trace[i].ok
                    /\ TraceSteps(run) = SixSteps(run.url)]_vars

\* an execution has ended with the meeting completed and the references stored
CompletedWithArtifacts ==
  /\ runs = EmptyBag
  /\ \E m \in Meetings : meetings[m].status = "completed" /\ meetings[m].artifacts

\* C28: an execution started without a recording locator calls fetch_session_data
\* before any other step; when the provider's answer holds no locator the
\* execution goes to its catch block having tried no other step, and the catch
\* block sets the meeting to failed (if the State Store accepts the write) before
\* the error is raised
NoLocatorQueriesFirst ==
  /\ [](\A run \in BagToSet(runs) :
          (~run.url /\ run.pc \in PipelinePcs) =>
            /\ run.trace # <<>> => run.trace[1].step = "fetch_session_data"
            /\ (run.trace = <<>> /\ run.pc \in StepNames)
                 => run.pc = "fetch_session_data"
            /\ run.failedStep = "fetch_session_data"
                 => Len(run.trace) = 1 /\ run.pc \in {"catch", "alert"})
  /\ [][\A run \in BagToSet(runs) :
          (RunStep(run, "fetch_session_data") /\ ~recordingReady[run.m])
            => \E new \in BagToSet(runs') :
                 /\ new.pc = "catch"
                 /\ new.failedStep = "fetch_session_data"
                 /\ Len(new.trace) = 1]_vars
  /\ [][\A run \in BagToSet(runs) :
          (RunCatch(run) /\ run.failedStep = "fetch_session_data")
            => /\ meetings' # meetings => meetings'[run.m].status = "failed"
               /\ runs' = Move(run, [run EXCEPT !.pc = "alert"])]_vars

\* the provider answered without a locator: the execution has failed after its
\* first step and the meeting is failed
NoLocatorFailed ==
  \E run \in BagToSet(runs) :
    /\ ~run.url
    /\ run.pc = "alert"
    /\ run.trace = <<[step |-> "fetch_session_data", ok |-> TRUE]>>
    /\ run.failedStep = "fetch_session_data"
    /\ meetings[run.m].status = "failed"

\* C29: while an execution of the pipeline is in flight for a meeting, the
\* meeting's row is written only by steps of executions
SoleWriterWhileProcessing ==
  [][\A m \in Meetings :
       (InFlight(m) > 0 /\ meetings'[m] # meetings[m]) => runs' # runs]_vars

\* C27: the poller's write of failed is applied only to a meeting whose stored
\* status is bot_joined when the write happens
ForceFailOnlyBotJoined ==
  [][(poll.pc = "sweep" /\ poll' # poll /\ meetings' # meetings)
       => meetings[Head(poll.list).id].status = "bot_joined"]_vars

\* C30: a step of the poll cycle that changes a Meeting row changes only the row
\* of the meeting it examines, sets its status to failed, and does so for a
\* meeting that is bot_joined and past the ceiling; every other step of the cycle
\* leaves the Meeting rows unchanged
PollerWritesOnlyForceFail ==
  [][(poll' # poll /\ meetings' # meetings) =>
       /\ poll.pc = "sweep"
       /\ LET m == Head(poll.list).id IN
            /\ \A k \in Meetings \ {m} : meetings'[k] = meetings[k]
            /\ meetings'[m].status = "failed"
            /\ meetings[m].status = "bot_joined"
            /\ StatusAgeMinutes(meetings[m]) > CeilingMinutes]_vars

\* the meeting under examination, as the cycle read it, is one the poller acts
\* on: it has a session id and is bot_joined for more than the short threshold
\* and not more than the ceiling, or recording for more than its threshold
Stuck(e) ==
  /\ e.session
  /\ \/ /\ e.status = "bot_joined"
        /\ Now - ClockPoints[e.updated_at] > BotJoinedMinutes
        /\ Now - ClockPoints[e.updated_at] <= CeilingMinutes
     \/ /\ e.status = "recording"
        /\ Now - ClockPoints[e.updated_at] > RecordingMinutes

PastCeiling(e) ==
  e.session /\ e.status = "bot_joined"
    /\ Now - ClockPoints[e.updated_at] > CeilingMinutes

RetryRunsOnlyWithLocator ==
  /\ [][\A run \in BagToSet(runs) :
          RetryFetch(run) =>
            /\ recordingReady[run.m] =>
                 \/ runs' = Move(run, [run EXCEPT !.pc = "begin", !.url = TRUE])
                 \/ runs' = Move(run, [run EXCEPT !.pc = "retry_catch"])
            /\ ~recordingReady[run.m] =>
                 /\ runs' = Move(run, [run EXCEPT !.pc = "retry_catch"])
                 /\ run.trace = <<>>]_vars
  /\ [][\A run \in BagToSet(runs) :
          (run.pc = "retry_catch" /\ CopiesIn(run, runs') < CopiesIn(run, runs))
            => /\ runs' = Finish(run)
               /\ meetings' # meetings => meetings'[run.m].status = "failed"
               /\ UNCHANGED <<alert, stepOut, attempts, job, server>>]_vars

\* the provider held no recording for the retry: retryProcessing is in its catch
\* block and no step of the pipeline was made
RetryFailedNoLocator ==
  \E run \in BagToSet(runs) :
    /\ run.pc = "retry_catch"
    /\ run.trace = <<>>
    /\ run.failedStep = "none"
    /\ ~recordingReady[run.m]
    /\ meetings[run.m].status = "processing"

\* C33: when a processStep call has returned or raised, every processing_logs
\* row it inserted has been finalized: none is still started
NoRowLeftStarted ==
  (stepOut # NoResult /\ stepOut.outcome \in {"returned", "raised"}) =>
    \A i \in 1..Len(stepOut.rows) : stepOut.rows[i] \in {"completed", "failed"}

\* C34: a meeting that is failed re-enters processing only while the age of its
\* status (from updated_at) is not above the ceiling
NoReentryPastCeiling ==
  [][\A m \in Meetings :
       (meetings[m].status = "failed" /\ meetings'[m].status = "processing")
         => StatusAgeMinutes(meetings[m]) <= CeilingMinutes]_vars

\* C35: an execution whose send_notification call has returned (the completion
\* notification is sent) never reaches its catch block, where the meeting is set
\* to failed and the critical alert is sent
NotifiedRunNeverFails ==
  \A run \in BagToSet(runs) :
    (\E i \in 1..Len(run.trace) :
       run.trace[i] = [step |-> "send_notification", ok |-> TRUE])
      => run.pc \notin {"catch", "alert"}

\* the meeting rests in bot_joined or recording beyond its threshold
RestsBeyondThreshold(m) ==
  \/ meetings[m].status = "bot_joined"
       /\ StatusAgeMinutes(meetings[m]) > BotJoinedMinutes
  \/ meetings[m].status = "recording"
       /\ StatusAgeMinutes(meetings[m]) > RecordingMinutes

\* C36: when the cycles keep reading their lists from the State Store, every
\* meeting that rests in bot_joined or recording beyond its threshold is examined
\* by some cycle in the end
EveryStuckExamined ==
  \A m \in Crowd :
    ([]<>(poll.pc = "sweep"))
      => [](RestsBeyondThreshold(m)
              => <>(poll.pc = "sweep" /\ Head(poll.list).id = m))

\* C37: at most one row of meetings carries the id of the session
OneRowPerSession ==
  Cardinality({m \in Meetings : meetings[m].status # "none" /\ meetings[m].session}) <= 1

\* C38: once a shutdown signal has been received no poll cycle is started
NoCycleAfterSignal ==
  [][server # "listening" => ~(poll.pc = "idle" /\ poll'.pc # "idle")]_vars

\* C39: isRunning is true exactly when a task of the job is scheduled, and then
\* this.task refers to it; at most one task is scheduled at any time; start()
\* while the job is running changes nothing; after stop() no task is scheduled
JobHasOneTask ==
  /\ [](/\ job.isRunning <=> job.scheduled > 0
        /\ job.isRunning <=> job.task
        /\ job.scheduled <= 1)
  /\ [][(JobStart /\ job.isRunning) => job' = job]_vars
  /\ [][JobStop => (job'.scheduled = 0 /\ ~job'.isRunning /\ ~job'.task)]_vars

\* stop() has been called while a cycle that the scheduled task started is under
\* way: the job is as its constructor left it and no task is scheduled
StoppedDuringCycle ==
  /\ poll.pc = "sweep"
  /\ job = StoppedJob

====
